---- MODULE Spec2Model ----
(***************************************************************************)
(* Model of pyTracer's geometric transformations                           *)
(*   src/src/core/transform.py   Transform, AnimatedTransform              *)
(*   src/src/core/quaternion.py  toTransform, fromTransform                *)
(*                                                                         *)
(* Numbers are exact rationals <<numerator, denominator>> in lowest terms  *)
(* with a positive denominator, so the floating tolerance of the source    *)
(* plays no part: an equality below is an exact equality.  Angles are      *)
(* multiples of 90 degrees and vectors to normalize have a rational        *)
(* length, so that sin, cos and sqrt are exact as well.                    *)
(*                                                                         *)
(* A numpy matrix is a tuple of rows.  The source indexes from 0; At(m,i,j)*)
(* reads m[i][j] with the source's indices.                                *)
(*                                                                         *)
(* A Python value that the source dispatches on with isinstance is a       *)
(* record with a "kind" field; a raised exception is the record            *)
(* [kind |-> <exception class>].                                           *)
(***************************************************************************)
EXTENDS Integers, Sequences, FiniteSets, TLC

VARIABLES
    t,      \* the Transform the program holds
    ops,    \* the operands of the __mul__ that produced t, or NoOps
    nops,   \* number of __mul__ and inverse calls so far
    res,    \* the last call on t or of Transform(m), and its outcome
    at,     \* the AnimatedTransform instance, or NoInstance
    ret,    \* the last AnimatedTransform method call and what it returned
    qin,    \* the quaternion last handed to the quaternion module
    qout    \* what the quaternion module returned for it

vars == <<t, ops, nops, res, at, ret, qin, qout>>
varsT == <<t, ops, nops, res>>
varsA == <<at, ret>>
varsQ == <<qin, qout>>

(***************************************************************************)
(* Exact rational arithmetic (the FLOAT of the source without rounding).   *)
(***************************************************************************)
Abs(n) == IF n < 0 THEN -n ELSE n

RECURSIVE GCD(_, _)
GCD(a, b) == IF b = 0 THEN a ELSE GCD(b, a % b)

Norm(n, d) ==
    IF n = 0 THEN <<0, 1>>
    ELSE LET g == GCD(Abs(n), Abs(d))
             s == IF d < 0 THEN -1 ELSE 1
         IN  <<(s * n) \div g, (s * d) \div g>>

Rat(n) == <<n, 1>>
Zero == <<0, 1>>
One == <<1, 1>>
Half == <<1, 2>>

RAdd(a, b) ==
    IF a[2] = b[2] THEN Norm(a[1] + b[1], a[2])
    ELSE LET g == GCD(a[2], b[2])
         IN  Norm(a[1] * (b[2] \div g) + b[1] * (a[2] \div g), (a[2] \div g) * b[2])
RNeg(a) == <<-a[1], a[2]>>
RSub(a, b) == RAdd(a, RNeg(b))
RMul(a, b) ==
    IF a[2] = 1 /\ b[2] = 1 THEN <<a[1] * b[1], 1>>
    ELSE IF a[1] = 0 \/ b[1] = 0 THEN <<0, 1>>
    ELSE LET g1 == GCD(Abs(a[1]), b[2])
             g2 == GCD(Abs(b[1]), a[2])
         IN  <<(a[1] \div g1) * (b[1] \div g2), (a[2] \div g2) * (b[2] \div g1)>>
RDiv(a, b) == Norm(a[1] * b[2], a[2] * b[1])
\* a < b, by integer parts and then by the reciprocals of the fractional
\* parts, so that no product is formed
RECURSIVE RLt(_, _)
RLt(a, b) ==
    IF a[2] = b[2] THEN a[1] < b[1]
    ELSE IF a[1] \div a[2] # b[1] \div b[2] THEN a[1] \div a[2] < b[1] \div b[2]
    ELSE IF b[1] % b[2] = 0 THEN FALSE
    ELSE IF a[1] % a[2] = 0 THEN TRUE
    ELSE RLt(<<b[2], b[1] % b[2]>>, <<a[2], a[1] % a[2]>>)
RLe(a, b) == ~RLt(b, a)
RMin(a, b) == IF RLe(a, b) THEN a ELSE b
RMax(a, b) == IF RLe(a, b) THEN b ELSE a

\* np.sqrt on the values the model feeds it: squares of rationals.
ISqrt(n) == CHOOSE k \in 0..n : k * k = n
IsSquare(n) == \E k \in 0..n : k * k = n
RSqrt(a) == <<ISqrt(a[1]), ISqrt(a[2])>>

\* np.sin(np.deg2rad(angle)) and np.cos(np.deg2rad(angle)), angle a multiple of 90
SinDeg(angle) ==
    LET a == angle % 360
    IN  IF a = 90 THEN One ELSE IF a = 270 THEN RNeg(One) ELSE Zero
CosDeg(angle) ==
    LET a == angle % 360
    IN  IF a = 0 THEN One ELSE IF a = 180 THEN RNeg(One) ELSE Zero

(***************************************************************************)
(* numpy arrays                                                            *)
(***************************************************************************)
At(m, i, j) == m[i + 1][j + 1]

\* np.eye(4,4)
Eye4 == [i \in 1..4 |-> [j \in 1..4 |-> IF i = j THEN One ELSE Zero]]

\* m with m[i][j] = v, the source's item assignment
Put(m, i, j, v) == [m EXCEPT ![i + 1][j + 1] = v]

RECURSIVE RSum(_, _)
RSum(f, n) == IF n = 0 THEN Zero ELSE RAdd(RSum(f, n - 1), f[n])

\* a.dot(b) of two square matrices of the same size
MatMul(a, b) ==
    [i \in 1..Len(a) |->
        [j \in 1..Len(a) |->
            RSum([k \in 1..Len(a) |-> RMul(a[i][k], b[k][j])], Len(a))]]

\* m.T
Transpose(m) == [i \in 1..Len(m) |-> [j \in 1..Len(m) |-> m[j][i]]]

\* np.shape(m)
Shape(m) == <<Len(m), Len(m[1])>>

\* m without row i and column j (1-based), for the cofactor expansion
Minor(m, i, j) ==
    [r \in 1..(Len(m) - 1) |->
        [c \in 1..(Len(m) - 1) |->
            m[IF r < i THEN r ELSE r + 1][IF c < j THEN c ELSE c + 1]]]

RECURSIVE Det(_)
Det(m) ==
    IF Len(m) = 1 THEN m[1][1]
    ELSE RSum([j \in 1..Len(m) |->
                 RMul(IF j % 2 = 1 THEN m[1][j] ELSE RNeg(m[1][j]),
                      Det(Minor(m, 1, j)))], Len(m))

\* np.linalg.inv(m): the inverse, or LinAlgError for a singular matrix
LinalgInv(m) ==
    LET d == Det(m)
    IN  IF d = Zero THEN [kind |-> "LinAlgError"]
        ELSE [kind |-> "ndarray",
              a |-> [i \in 1..Len(m) |->
                       [j \in 1..Len(m) |->
                          RDiv(IF (i + j) % 2 = 0 THEN Det(Minor(m, j, i))
                               ELSE RNeg(Det(Minor(m, j, i))), d)]]]

(***************************************************************************)
(* Geometry values (src.core.geometry is not part of the sources; the      *)
(* classes are the plain coordinate triples the transform code reads).     *)
(***************************************************************************)
V3(x, y, z) == <<Rat(x), Rat(y), Rat(z)>>
Point(v) == [kind |-> "Point", v |-> v]
Vector(v) == [kind |-> "Vector", v |-> v]
Normal(v) == [kind |-> "Normal", v |-> v]
BBox(pMin, pMax) == [kind |-> "BBox", pMin |-> pMin, pMax |-> pMax]
Ray(o, d, time) == [kind |-> "Ray", o |-> o, d |-> d, time |-> time]

VAdd(a, b) == [i \in 1..3 |-> RAdd(a[i], b[i])]
VSub(a, b) == [i \in 1..3 |-> RSub(a[i], b[i])]
VScale(s, a) == [i \in 1..3 |-> RMul(s, a[i])]
VDot(a, b) == RAdd(RAdd(RMul(a[1], b[1]), RMul(a[2], b[2])), RMul(a[3], b[3]))
\* Vector.cross
Cross(a, b) ==
    <<RSub(RMul(a[2], b[3]), RMul(a[3], b[2])),
      RSub(RMul(a[3], b[1]), RMul(a[1], b[3])),
      RSub(RMul(a[1], b[2]), RMul(a[2], b[1]))>>
\* normalize(v) = v / |v|
normalize(v) == VScale(RDiv(One, RSqrt(VDot(v, v))), v)

\* tolerance of Transform's unity test
EPS == <<1, 1000000>>
\* ne_unity(x): x differs from 1 by more than the tolerance
ne_unity(x) == RLt(x, RSub(One, EPS)) \/ RLt(RAdd(One, EPS), x)

(***************************************************************************)
(* class Transform                                                         *)
(***************************************************************************)
\* Transform(): m is None
Transform_default == [kind |-> "Transform", m |-> Eye4, mInv |-> Eye4]

\* Transform(m, mInv): both given, stored as they are
Transform_m_mInv(m, mInv) == [kind |-> "Transform", m |-> m, mInv |-> mInv]

\* Transform(m): the shape test, then the numeric inverse
Transform_m(m) ==
    IF Shape(m) # <<4, 4>> THEN [kind |-> "TypeError"]
    ELSE LET inv == LinalgInv(m)
         IN  IF inv.kind = "LinAlgError" THEN inv
             ELSE [kind |-> "Transform", m |-> m, mInv |-> inv.a]

\* self.m[0:4, 0:3].dot(arg) + self.m[0:4, 3], then the perspective divide
Call_Point(self, p) ==
    LET r == [i \in 0..3 |->
                RAdd(RAdd(RAdd(RMul(At(self.m, i, 0), p[1]),
                               RMul(At(self.m, i, 1), p[2])),
                          RMul(At(self.m, i, 2), p[3])),
                     At(self.m, i, 3))]
        p0 == <<r[0], r[1], r[2]>>
    IN  IF ne_unity(r[3])
        THEN IF r[3] = Zero THEN [kind |-> "NonFinite"]
             ELSE Point([i \in 1..3 |-> RDiv(p0[i], r[3])])
        ELSE Point(p0)

\* self.m[0:3, 0:3].dot(arg)
Call_Vector(self, v) ==
    Vector([i \in 1..3 |->
              RAdd(RAdd(RMul(At(self.m, i - 1, 0), v[1]),
                        RMul(At(self.m, i - 1, 1), v[2])),
                   RMul(At(self.m, i - 1, 2), v[3]))])

\* a variant of the Normal branch that multiplies by m as the Vector branch does
NormalByM(self, n) ==
    Normal([i \in 1..3 |->
              RAdd(RAdd(RMul(At(self.m, i - 1, 0), n[1]),
                        RMul(At(self.m, i - 1, 1), n[2])),
                   RMul(At(self.m, i - 1, 2), n[3]))])
\* self.mInv[0:3, 0:3].T.dot(arg)
Call_Normal(self, n) ==
    Normal([i \in 1..3 |->
              RAdd(RAdd(RMul(At(self.mInv, 0, i - 1), n[1]),
                        RMul(At(self.mInv, 1, i - 1), n[2])),
                   RMul(At(self.mInv, 2, i - 1), n[3]))])

\* the BBox branch: the min corner and the three edge vectors
Call_BBox(self, b) ==
    LET x == <<RSub(b.pMax[1], b.pMin[1]), Zero, Zero>>
        y == <<Zero, RSub(b.pMax[2], b.pMin[2]), Zero>>
        z == <<Zero, Zero, RSub(b.pMax[3], b.pMin[3])>>
        pMin == Call_Point(self, b.pMin)
        tx == Call_Vector(self, x).v
        ty == Call_Vector(self, y).v
        tz == Call_Vector(self, z).v
    IN  IF pMin.kind # "Point" THEN pMin
        ELSE BBox(pMin.v, VAdd(pMin.v, VAdd(VAdd(tx, ty), tz)))

\* Transform.__call__
Transform_call(self, arg) ==
    IF arg.kind = "Point" THEN Call_Point(self, arg.v)
    ELSE IF arg.kind = "Vector" THEN Call_Vector(self, arg.v)
    ELSE IF arg.kind = "Normal" THEN Call_Normal(self, arg.v)
    ELSE IF arg.kind = "Ray"
         THEN LET o == Call_Point(self, arg.o)
              IN  IF o.kind # "Point" THEN o
                  ELSE Ray(o.v, Call_Vector(self, arg.d).v, arg.time)
    ELSE IF arg.kind = "BBox" THEN Call_BBox(self, arg)
    ELSE [kind |-> "TypeError"]

\* a variant of __mul__ that multiplies the inverses in the order of the operands
MulInverseSameOrder(self, other) ==
    Transform_m_mInv(MatMul(self.m, other.m), MatMul(self.mInv, other.mInv))

\* a variant of __mul__ that composes left to right
MulLeftToRight(self, other) ==
    Transform_m_mInv(MatMul(other.m, self.m), MatMul(self.mInv, other.mInv))

\* Transform.__mul__
Transform_mul(self, other) ==
    Transform_m_mInv(MatMul(self.m, other.m), MatMul(other.mInv, self.mInv))

translate(delta) ==
    LET m == Put(Put(Put(Eye4, 0, 3, delta[1]), 1, 3, delta[2]), 2, 3, delta[3])
        mInv == Put(Put(Put(Eye4, 0, 3, RNeg(delta[1])), 1, 3, RNeg(delta[2])),
                    2, 3, RNeg(delta[3]))
    IN  Transform_m_mInv(m, mInv)

scale(x, y, z) ==
    LET m == Put(Put(Put(Eye4, 0, 0, x), 1, 1, y), 2, 2, z)
        mInv == Put(Put(Put(Eye4, 0, 0, RDiv(One, x)), 1, 1, RDiv(One, y)),
                    2, 2, RDiv(One, z))
    IN  Transform_m_mInv(m, mInv)

rotate_x(angle) ==
    LET sin_t == SinDeg(angle)
        cos_t == CosDeg(angle)
        m == Put(Put(Put(Put(Eye4, 1, 1, cos_t), 1, 2, RNeg(sin_t)),
                     2, 1, sin_t), 2, 2, cos_t)
    IN  Transform_m_mInv(m, Transpose(m))

rotate_y(angle) ==
    LET sin_t == SinDeg(angle)
        cos_t == CosDeg(angle)
        m == Put(Put(Put(Put(Eye4, 0, 0, cos_t), 0, 2, sin_t),
                     2, 0, RNeg(sin_t)), 2, 2, cos_t)
    IN  Transform_m_mInv(m, Transpose(m))

rotate_z(angle) ==
    LET sin_t == SinDeg(angle)
        cos_t == CosDeg(angle)
        m == Put(Put(Put(Put(Eye4, 0, 0, cos_t), 0, 1, RNeg(sin_t)),
                     1, 0, sin_t), 1, 1, cos_t)
    IN  Transform_m_mInv(m, Transpose(m))

rotate(angle, axis) ==
    LET a == normalize(axis)
        s == SinDeg(angle)
        c == CosDeg(angle)
        ax == a[1]
        ay == a[2]
        az == a[3]
        omc == RSub(One, c)
        m == [i \in 1..4 |-> [j \in 1..4 |->
               CASE <<i, j>> = <<1, 1>> ->
                        RAdd(RMul(ax, ax), RMul(RSub(One, RMul(ax, ax)), c))
                 [] <<i, j>> = <<1, 2>> ->
                        RSub(RMul(RMul(ax, ay), omc), RMul(az, s))
                 [] <<i, j>> = <<1, 3>> ->
                        RAdd(RMul(RMul(ax, az), omc), RMul(ay, s))
                 [] <<i, j>> = <<2, 1>> ->
                        RAdd(RMul(RMul(ax, ay), omc), RMul(az, s))
                 [] <<i, j>> = <<2, 2>> ->
                        RAdd(RMul(ay, ay), RMul(RSub(One, RMul(ay, ay)), c))
                 [] <<i, j>> = <<2, 3>> ->
                        RSub(RMul(RMul(ay, az), omc), RMul(ax, s))
                 [] <<i, j>> = <<3, 1>> ->
                        RSub(RMul(RMul(ax, az), omc), RMul(ay, s))
                 [] <<i, j>> = <<3, 2>> ->
                        RAdd(RMul(RMul(ay, az), omc), RMul(ax, s))
                 [] <<i, j>> = <<3, 3>> ->
                        RAdd(RMul(az, az), RMul(RSub(One, RMul(az, az)), c))
                 [] OTHER -> Eye4[i][j]]]
    IN  Transform_m_mInv(m, Transpose(m))

look_at(pos, look, up) ==
    LET zc == normalize(VSub(look, pos))
        xc == normalize(Cross(normalize(up), zc))
        yc == Cross(zc, xc)
        rows == <<xc, yc, zc>>
        c2w == [i \in 1..4 |-> [j \in 1..4 |->
                  IF i <= 3 /\ j <= 3 THEN rows[i][j]
                  ELSE IF i <= 3 THEN pos[i]
                  ELSE Eye4[i][j]]]
        w2c == [i \in 1..4 |-> [j \in 1..4 |->
                  IF i <= 3 /\ j <= 3 THEN rows[j][i]
                  ELSE IF i <= 3
                       THEN RNeg(RAdd(RAdd(RMul(pos[1], xc[i]), RMul(pos[2], yc[i])),
                                      RMul(pos[3], zc[i])))
                  ELSE Eye4[i][j]]]
    IN  Transform_m_mInv(c2w, w2c)

\* Transform.inverse
inverse(self) == Transform_m_mInv(self.mInv, self.m)

\* Transform.is_identity
is_identity(self) == self.m = Eye4

\* Transform.has_scale: the squares of the three diagonal entries of m
has_scale(self) ==
    \/ ne_unity(RMul(At(self.m, 0, 0), At(self.m, 0, 0)))
    \/ ne_unity(RMul(At(self.m, 1, 1), At(self.m, 1, 1)))
    \/ ne_unity(RMul(At(self.m, 2, 2), At(self.m, 2, 2)))

(***************************************************************************)
(* The Transform program: a Transform is built by a constructor, composed  *)
(* with further constructed Transforms, inverted, and applied.             *)
(***************************************************************************)
MaxOps == 1

NoOps == [kind |-> "NoOps"]
NoCall == [kind |-> "NoCall"]

Deltas == {V3(1, 0, 0)}
Scales == {V3(2, 1, 1)}
Angles == {90, 180}
Axes == {V3(3, 4, 0)}
LookAts == {<<V3(1, 2, 3), V3(4, 6, 3), V3(0, 0, 1)>>}
\* a shear with homogeneous weight 2, a singular matrix, a 3x3 matrix
Matrices ==
    {<<V3(2, 1, 0) \o <<One>>, V3(0, 1, 0) \o <<Zero>>,
       V3(0, 0, 1) \o <<Zero>>, V3(0, 0, 0) \o <<Rat(2)>>>>,
     <<V3(1, 1, 0) \o <<Zero>>, V3(1, 1, 0) \o <<Zero>>,
       V3(0, 0, 1) \o <<Zero>>, V3(0, 0, 0) \o <<One>>>>,
     <<V3(1, 0, 0), V3(0, 1, 0), V3(0, 0, 1)>>}

\* the Transforms the named constructors and Transform(m) build from the inputs
Constructed ==
    {Transform_default}
    \cup {translate(d) : d \in Deltas}
    \cup {scale(s[1], s[2], s[3]) : s \in Scales}
    \cup {rotate_x(a) : a \in Angles}
    \cup {rotate_y(a) : a \in Angles}
    \cup {rotate_z(a) : a \in Angles}
    \cup {rotate(a, x) : a \in Angles, x \in Axes}
    \cup {look_at(l[1], l[2], l[3]) : l \in LookAts}
    \cup {r \in {Transform_m(m) : m \in Matrices} : r.kind = "Transform"}

Args ==
    {Point(V3(1, 0, 0)), Point(V3(1, 2, 3)),
     Vector(V3(1, 0, 0)),
     Normal(V3(1, 0, 0)), Normal(V3(1, 2, 3)),
     Ray(V3(0, 0, 0), V3(0, 0, 1), Zero),
     BBox(V3(0, 0, 0), V3(1, 1, 1)),
     [kind |-> "str"]}

NoInstance == [kind |-> "NoInstance"]
NoQuaternion == [kind |-> "NoQuaternion"]

InitT ==
    /\ t = Transform_default
    /\ ops = NoOps
    /\ nops = 0
    /\ res = NoCall
    /\ at = NoInstance
    /\ ret = NoCall
    /\ qin = NoQuaternion
    /\ qout = NoCall

\* Transform()
Identity ==
    /\ t' = Transform_default
    /\ ops' = NoOps
    /\ res' = NoCall
    /\ UNCHANGED <<nops, varsA, varsQ>>

Translate ==
    /\ \E d \in Deltas : t' = translate(d)
    /\ ops' = NoOps
    /\ res' = NoCall
    /\ UNCHANGED <<nops, varsA, varsQ>>

Scale ==
    /\ \E s \in Scales : t' = scale(s[1], s[2], s[3])
    /\ ops' = NoOps
    /\ res' = NoCall
    /\ UNCHANGED <<nops, varsA, varsQ>>

RotateX ==
    /\ \E a \in Angles : t' = rotate_x(a)
    /\ ops' = NoOps
    /\ res' = NoCall
    /\ UNCHANGED <<nops, varsA, varsQ>>

RotateY ==
    /\ \E a \in Angles : t' = rotate_y(a)
    /\ ops' = NoOps
    /\ res' = NoCall
    /\ UNCHANGED <<nops, varsA, varsQ>>

RotateZ ==
    /\ \E a \in Angles : t' = rotate_z(a)
    /\ ops' = NoOps
    /\ res' = NoCall
    /\ UNCHANGED <<nops, varsA, varsQ>>

Rotate ==
    /\ \E a \in Angles, x \in Axes : t' = rotate(a, x)
    /\ ops' = NoOps
    /\ res' = NoCall
    /\ UNCHANGED <<nops, varsA, varsQ>>

LookAt ==
    /\ \E l \in LookAts : t' = look_at(l[1], l[2], l[3])
    /\ ops' = NoOps
    /\ res' = NoCall
    /\ UNCHANGED <<nops, varsA, varsQ>>

\* Transform(m) for each raw matrix of the inputs
FromMatrices == [m \in Matrices |-> Transform_m(m)]

\* Transform(m) on a raw matrix that passes the checks: the new instance
FromMatrix ==
    /\ \E m \in Matrices :
          /\ FromMatrices[m].kind = "Transform"
          /\ t' = FromMatrices[m]
    /\ ops' = NoOps
    /\ res' = NoCall
    /\ UNCHANGED <<nops, varsA, varsQ>>

\* Transform(m) on a raw matrix that is rejected: the exception, no instance
FromMatrixRaises ==
    /\ \E m \in Matrices :
          /\ FromMatrices[m].kind # "Transform"
          /\ res' = [kind |-> "Raised", exc |-> FromMatrices[m].kind]
    /\ UNCHANGED <<t, ops, nops, varsA, varsQ>>

\* t * other
Compose ==
    /\ nops < MaxOps
    /\ \E other \in Constructed :
          /\ t' = Transform_mul(t, other)
          /\ ops' = [kind |-> "Ops", a |-> t, b |-> other]
    /\ nops' = nops + 1
    /\ res' = NoCall
    /\ UNCHANGED <<varsA, varsQ>>

\* t.inverse()
Inverse ==
    /\ nops < MaxOps
    /\ t' = inverse(t)
    /\ ops' = NoOps
    /\ nops' = nops + 1
    /\ res' = NoCall
    /\ UNCHANGED <<varsA, varsQ>>

\* t(arg)
Apply ==
    /\ \E arg \in Args : res' = [kind |-> "Call", arg |-> arg, out |-> Transform_call(t, arg)]
    /\ UNCHANGED <<t, ops, nops, varsA, varsQ>>

\* t.has_scale()
HasScale ==
    /\ res' = [kind |-> "HasScale", out |-> has_scale(t)]
    /\ UNCHANGED <<t, ops, nops, varsA, varsQ>>

NextT ==
    \/ Identity \/ Translate \/ Scale \/ RotateX \/ RotateY \/ RotateZ
    \/ Rotate \/ LookAt \/ FromMatrix \/ FromMatrixRaises
    \/ Compose \/ Inverse \/ Apply \/ HasScale

SpecT == InitT /\ [][NextT]_vars

(***************************************************************************)
(* Properties of Transform                                                 *)
(***************************************************************************)
\* C1: the stored mInv is the matrix inverse of the stored m, on both sides;
\* so T.inverse().m is T.mInv and T * T.inverse() is the identity transform.
C1_InverseStored ==
    /\ MatMul(t.m, t.mInv) = Eye4
    /\ MatMul(t.mInv, t.m) = Eye4
    /\ inverse(t).m = t.mInv
    /\ is_identity(Transform_mul(t, inverse(t)))

\* a product of two Transforms that do not commute, neither being the identity
C1_Witness ==
    /\ ops.kind = "Ops"
    /\ MatMul(ops.a.m, ops.b.m) # MatMul(ops.b.m, ops.a.m)
    /\ t.m = MatMul(ops.a.m, ops.b.m)
    /\ MatMul(t.m, t.mInv) = Eye4

\* the upper-left 3x3 block of a matrix applied to a triple
Linear3(m, v) ==
    [i \in 1..3 |->
        RAdd(RAdd(RMul(m[i][1], v[1]), RMul(m[i][2], v[2])), RMul(m[i][3], v[3]))]

\* C2: T applied to a Normal n is the transpose of the inverse of m (its
\* upper-left 3x3 block) times n, not renormalized: scale(2,1,1) maps
\* Normal (1,0,0) to (1/2,0,0) and Vector (1,0,0) to (2,0,0).
C2_NormalInverseTranspose ==
    res.kind = "Call" =>
      /\ res.arg.kind = "Normal" =>
            res.out = Normal(Linear3(Transpose(LinalgInv(t.m).a), res.arg.v))
      /\ (t = scale(Rat(2), One, One) /\ res.arg = Normal(V3(1, 0, 0))) =>
            res.out = Normal(<<Half, Zero, Zero>>)
      /\ (t = scale(Rat(2), One, One) /\ res.arg = Vector(V3(1, 0, 0))) =>
            res.out = Vector(V3(2, 0, 0))

C2_Witness ==
    /\ res.kind = "Call"
    /\ t = scale(Rat(2), One, One)
    /\ res.arg = Normal(V3(1, 0, 0))
    /\ res.out = Normal(<<Half, Zero, Zero>>)
    /\ res.out # Normal(Linear3(t.m, res.arg.v))

\* C3: A * B is Transform(A.m.B.m, B.mInv.A.mInv) and maps a Point p to
\* A(B(p)); translate((1,0,0)) * rotate_z(90) maps Point (1,0,0) to (1,1,0).
C3_ComposeRightToLeft ==
    ops.kind = "Ops" =>
      /\ t = Transform_m_mInv(MatMul(ops.a.m, ops.b.m),
                              MatMul(ops.b.mInv, ops.a.mInv))
      /\ (res.kind = "Call" /\ res.arg.kind = "Point") =>
            res.out = Transform_call(ops.a, Transform_call(ops.b, res.arg))
      /\ (/\ ops.a = translate(V3(1, 0, 0))
          /\ ops.b = rotate_z(90)
          /\ res.kind = "Call"
          /\ res.arg = Point(V3(1, 0, 0))) => res.out = Point(V3(1, 1, 0))

C3_Witness ==
    /\ ops.kind = "Ops"
    /\ ops.a = translate(V3(1, 0, 0))
    /\ ops.b = rotate_z(90)
    /\ res.kind = "Call"
    /\ res.arg = Point(V3(1, 0, 0))
    /\ res.out = Point(V3(1, 1, 0))
    /\ res.out # Transform_call(ops.b, Transform_call(ops.a, res.arg))

\* the 8 corners of a box
Corners(b) ==
    {<<x, y, z>> : x \in {b.pMin[1], b.pMax[1]}, y \in {b.pMin[2], b.pMax[2]},
                   z \in {b.pMin[3], b.pMax[3]}}

\* p lies in box b, component-wise
Inside(p, b) == \A i \in 1..3 : RLe(b.pMin[i], p[i]) /\ RLe(p[i], b.pMax[i])

\* C4: the box returned for a bounding box b contains T(c) for each of the
\* 8 corners c of b.
C4_BBoxConservative ==
    (res.kind = "Call" /\ res.arg.kind = "BBox") =>
        \A c \in Corners(res.arg) : Inside(Call_Point(t, c).v, res.out)

\* the square of the length to which m maps the unit vector of axis i
AxisScale2(m, i) ==
    RAdd(RAdd(RMul(At(m, 0, i), At(m, 0, i)), RMul(At(m, 1, i), At(m, 1, i))),
         RMul(At(m, 2, i), At(m, 2, i)))

\* C11: has_scale() is true exactly when the length to which the transform
\* maps some unit axis vector differs from 1 (within the tolerance).
C11_HasScaleAxisLengths ==
    res.kind = "HasScale" =>
        (res.out <=> \E i \in 0..2 : ne_unity(AxisScale2(t.m, i)))

(***************************************************************************)
(* class AnimatedTransform                                                 *)
(*                                                                         *)
(* __init__ assigns the five attributes below and then calls Decompose     *)
(* twice.  The results of Decompose are bound to the constructor's local   *)
(* list only (T = R = S is one list, never stored on self), so the calls   *)
(* leave nothing on the instance; what they do is raise or return, which   *)
(* AnimatedTransform_init_raises gives.  The instance is kept as __init__  *)
(* leaves its attributes, whether or not __init__ returned normally.       *)
(*                                                                         *)
(* The loop header of Decompose, `for norm > EPS and _ in range(100)`, is  *)
(* read as: iterate while norm > EPS, at most 100 times.                   *)
(***************************************************************************)
\* Transform.__ne__: the m matrices differ
Transform_ne(a, b) == a.m # b.m

\* AnimatedTransform.__init__
AnimatedTransform_init(t1, tm1, t2, tm2) ==
    [kind |-> "AnimatedTransform",
     startTime |-> tm1,
     endTime |-> tm2,
     startTransform |-> t1,
     endTransform |-> t2,
     animated |-> Transform_ne(t1, t2)]

\* Lerp(t, v1, v2) on scalars
Lerp(x, v1, v2) == RAdd(RMul(RSub(One, x), v1), RMul(x, v2))

\* Decompose, the translation: T = Vector(m[0,3], m[1,3], m[2,3])
DecomposeT(m) == <<At(m, 0, 3), At(m, 1, 3), At(m, 2, 3)>>

\* Decompose, M: m with its last column and last row cleared and M[3,3] = 1
DecomposeM(m) ==
    <<<<m[1][1], m[1][2], m[1][3], Zero>>,
      <<m[2][1], m[2][2], m[2][3], Zero>>,
      <<m[3][1], m[3][2], m[3][3], Zero>>,
      <<Zero, Zero, Zero, One>>>>

\* np.fabs on a scalar
RAbs(a) == <<Abs(a[1]), a[2]>>

\* np.max(np.sum(D, axis=0)) for D = np.fabs(Rnext - Rit)[0:3, 0:3]: the
\* largest column sum
ChangeMeasure(Rnext, Rit) ==
    LET col(j) == RAdd(RAdd(RAbs(RSub(At(Rnext, 0, j), At(Rit, 0, j))),
                            RAbs(RSub(At(Rnext, 1, j), At(Rit, 1, j)))),
                       RAbs(RSub(At(Rnext, 2, j), At(Rit, 2, j))))
    IN  RMax(RMax(col(0), col(1)), col(2))

\* the iteration cap of Decompose's loop, range(100)
IterationCap == 100

\* the body of Decompose's loop on its locals R and norm, given
\* Rit = np.linalg.inv(R.T).  n counts the iterations done and changes lists
\* the value of np.max(np.sum(D, axis=0)) of each.
DecomposeBody(s, Rit) ==
    LET e(i, j) == RMul(Half, RAdd(Rit[i][j], s.R[i][j]))
        row(i) == <<e(i, 1), e(i, 2), e(i, 3), e(i, 4)>>
    IN  CHOOSE r \in {[R |-> Rnext, norm |-> RMax(s.norm, d), n |-> s.n + 1,
                        changes |-> Append(s.changes, d), raised |-> s.raised] :
                          Rnext \in {<<row(1), row(2), row(3), row(4)>>},
                          d \in {ChangeMeasure(<<row(1), row(2), row(3), row(4)>>, Rit)}} : TRUE

\* one pass of the loop: the body when norm > EPS, nothing once the loop has
\* ended.  np.linalg.inv raises LinAlgError on a singular R.T, which ends
\* Decompose.
DecomposeStep(s) ==
    IF s.raised.kind # "None" \/ ~RLt(EPS, s.norm) THEN s
    ELSE CHOOSE r \in {IF inv.kind = "LinAlgError" THEN [s EXCEPT !.raised = inv]
                        ELSE DecomposeBody(s, inv.a) :
                           inv \in {LinalgInv(Transpose(s.R))}} : TRUE

\* k passes of the loop: the first half of them, then, unless those ended
\* the loop, the rest
RECURSIVE DecomposeLoop(_, _)
DecomposeLoop(s, k) ==
    IF k = 0 THEN s
    ELSE IF k = 1 THEN DecomposeStep(s)
    ELSE CHOOSE r \in {IF h.raised.kind # "None" \/ ~RLt(EPS, h.norm) THEN h
                        ELSE DecomposeLoop(h, k - (k \div 2)) :
                           h \in {DecomposeLoop(s, k \div 2)}} : TRUE

\* AnimatedTransform.Decompose.  After the loop quat.fromTransform is handed
\* the array R and reads R.m, an attribute an ndarray does not have; the
\* statements after it are not reached.
Decompose(m) ==
    LET T == Vector(DecomposeT(m))
        M == DecomposeM(m)
        s == DecomposeLoop([R |-> M, norm |-> RMul(Rat(2), EPS), n |-> 0,
                            changes |-> <<>>, raised |-> [kind |-> "None"]],
                           IterationCap)
    IN  [out |-> IF s.raised.kind # "None" THEN s.raised
                 ELSE [kind |-> "AttributeError"],
         iters |-> s.n, changes |-> s.changes]

\* what __init__ raises, or None: its two Decompose calls in order
AnimatedTransform_init_raises(d0, d1) ==
    IF d0.out.kind # "Decomposition" THEN d0.out
    ELSE IF d1.out.kind # "Decomposition" THEN d1.out
    ELSE [kind |-> "None"]

\* AnimatedTransform.interpolate.  Past the two early returns the method
\* reads self.T, an attribute no statement of the class assigns, and after it
\* the names R and S, which no scope defines.
interpolate(self, time) ==
    IF ~self.animated \/ RLe(time, self.startTime) THEN self.startTransform
    ELSE IF RLe(self.endTime, time) THEN self.endTransform
    ELSE IF "T" \notin DOMAIN self THEN [kind |-> "AttributeError"]
    ELSE [kind |-> "NameError"]

\* BBox(): the empty box
EmptyBBox == [kind |-> "EmptyBBox"]

\* BBox.union, accumulating into the receiver
union(self, b) ==
    IF self.kind = "EmptyBBox" THEN b
    ELSE BBox([i \in 1..3 |-> RMin(self.pMin[i], b.pMin[i])],
              [i \in 1..3 |-> RMax(self.pMax[i], b.pMax[i])])

\* steps = 128
steps == 128

\* time = Lerp(i * (1. / (steps-1)), self.startTime, self.endTime)
SampleTime(self, i) ==
    Lerp(RDiv(Rat(i), Rat(steps - 1)), self.startTime, self.endTime)

\* ret after ret.union(x) for every x of boxes, starting from ret0
RECURSIVE UnionAll(_, _)
UnionAll(ret0, boxes) ==
    IF boxes = {} THEN ret0
    ELSE LET x == CHOOSE y \in boxes : TRUE
         IN  UnionAll(union(ret0, x), boxes \ {x})

\* AnimatedTransform.motion_bounds.  The non-animated branch evaluates the
\* bare name startTransform, which no scope defines.  The loop of the animated
\* branch ends at the first sample whose interpolate raises; otherwise it
\* unites the boxes of all samples.  sampled counts the interpolate calls.
motion_bounds(self, b, useInv) ==
    IF ~self.animated THEN [out |-> [kind |-> "NameError"], sampled |-> 0]
    ELSE LET tr == [i \in 0..(steps - 1) |-> interpolate(self, SampleTime(self, i))]
             raising == {i \in 0..(steps - 1) : tr[i].kind # "Transform"}
         IN  IF raising # {}
             THEN LET i == CHOOSE k \in raising : \A j \in raising : k <= j
                  IN  [out |-> tr[i], sampled |-> i + 1]
             ELSE [out |-> UnionAll(EmptyBBox,
                                    {Transform_call(IF useInv THEN inverse(tr[i])
                                                    ELSE tr[i], b) :
                                       i \in 0..(steps - 1)}),
                   sampled |-> steps]

(***************************************************************************)
(* The AnimatedTransform program: an instance is constructed from two      *)
(* keyframes and then queried.                                             *)
(***************************************************************************)
MaxTime == 1

KeyTransforms == {Transform_default, translate(V3(1, 0, 0)), rotate_z(90)}
KeyTimes == {Rat(k) : k \in 0..MaxTime}
\* query times: before, at, between and after the key times
QueryTimes == {<<k, 2>> : k \in {-1, 1, 3}} \cup KeyTimes \cup {Rat(MaxTime + 1)}
Boxes == {BBox(V3(0, 0, 0), V3(1, 1, 1))}

InitA ==
    /\ at = NoInstance
    /\ ret = NoCall
    /\ t = Transform_default
    /\ ops = NoOps
    /\ nops = 0
    /\ res = NoCall
    /\ qin = NoQuaternion
    /\ qout = NoCall

\* Decompose of each key matrix
Decomposed == [m \in {k.m : k \in KeyTransforms} |-> Decompose(m)]

\* AnimatedTransform(t1, tm1, t2, tm2)
Construct ==
    /\ \E t1 \in KeyTransforms, t2 \in KeyTransforms, tm1 \in KeyTimes, tm2 \in KeyTimes :
          /\ at' = AnimatedTransform_init(t1, tm1, t2, tm2)
          /\ ret' = [kind |-> "Call", op |-> "__init__",
                      out |-> AnimatedTransform_init_raises(Decomposed[t1.m],
                                                            Decomposed[t2.m])]
    /\ UNCHANGED <<varsT, varsQ>>

\* AnimatedTransform.Decompose(m)
CallDecompose ==
    /\ \E k \in KeyTransforms :
          ret' = [kind |-> "Call", op |-> "Decompose", m |-> k.m,
                  out |-> Decomposed[k.m].out, iters |-> Decomposed[k.m].iters,
                  changes |-> Decomposed[k.m].changes]
    /\ UNCHANGED <<at, varsT, varsQ>>

\* at.interpolate(time)
Interpolate ==
    /\ at.kind = "AnimatedTransform"
    /\ \E time \in QueryTimes :
          ret' = [kind |-> "Call", op |-> "interpolate", time |-> time,
                  out |-> interpolate(at, time)]
    /\ UNCHANGED <<at, varsT, varsQ>>

\* at.motion_bounds(b, useInv)
MotionBounds ==
    /\ at.kind = "AnimatedTransform"
    /\ \E b \in Boxes, useInv \in BOOLEAN :
          LET r == motion_bounds(at, b, useInv)
          IN  ret' = [kind |-> "Call", op |-> "motion_bounds", b |-> b,
                      useInv |-> useInv, out |-> r.out, sampled |-> r.sampled]
    /\ UNCHANGED <<at, varsT, varsQ>>

NextA == Construct \/ Interpolate \/ MotionBounds \/ CallDecompose

SpecA == InitA /\ [][NextA]_vars

(***************************************************************************)
(* Properties of AnimatedTransform                                         *)
(***************************************************************************)
\* Transform.__eq__: the m matrices are equal
Transform_eq(a, b) == a.kind = "Transform" /\ b.kind = "Transform" /\ a.m = b.m

IsInterpolate == ret.kind = "Call" /\ ret.op = "interpolate"
IsMotionBounds == ret.kind = "Call" /\ ret.op = "motion_bounds"

\* C5: interpolate(t) is startTransform for t <= startTime (so at
\* startTime) and endTransform for t >= endTime (so at endTime), and is
\* startTransform at every t for a non-animated instance.
C5_InterpolateEnds ==
    IsInterpolate =>
      /\ RLe(ret.time, at.startTime) => Transform_eq(ret.out, at.startTransform)
      /\ RLe(at.endTime, ret.time) => Transform_eq(ret.out, at.endTransform)
      /\ ~at.animated => Transform_eq(ret.out, at.startTransform)

\* C6: for an animated instance and startTime < t < endTime, interpolate(t)
\* returns the Transform translate(T_interp) * rotation(R_interp) *
\* Transform(S_interp); its translation column is then T_interp, the linear
\* interpolation of the keyframes' translations at dt.
C6_InterpolateRecomposes ==
    (/\ IsInterpolate
     /\ at.animated
     /\ RLt(at.startTime, ret.time)
     /\ RLt(ret.time, at.endTime)) =>
       LET dt == RDiv(RSub(ret.time, at.startTime), RSub(at.endTime, at.startTime))
           T0 == DecomposeT(at.startTransform.m)
           T1 == DecomposeT(at.endTransform.m)
       IN  /\ ret.out.kind = "Transform"
           /\ DecomposeT(ret.out.m) = [i \in 1..3 |-> Lerp(dt, T0[i], T1[i])]

\* C7: motion_bounds(b, useInv) of a non-animated instance is startTransform
\* applied to b when useInv is false, and startTransform.inverse() applied
\* to b when useInv is true.
C7_MotionBoundsStatic ==
    (IsMotionBounds /\ ~at.animated) =>
       ret.out = Transform_call(IF ret.useInv THEN inverse(at.startTransform)
                                ELSE at.startTransform, ret.b)

\* box a contains box b
Contains(a, b) ==
    /\ a.kind = "BBox"
    /\ b.kind = "BBox"
    /\ \A i \in 1..3 : RLe(a.pMin[i], b.pMin[i]) /\ RLe(b.pMax[i], a.pMax[i])

\* the i-th of n times evenly spaced over [startTime, endTime]
Even(i, n) ==
    RAdd(at.startTime, RMul(RDiv(Rat(i), Rat(n - 1)), RSub(at.endTime, at.startTime)))

\* C8: motion_bounds of an animated instance takes 128 samples, evenly
\* spaced from startTime to endTime, and returns a box that contains, for
\* each sampled time, interpolate(time) (inverted when useInv) applied to b.
C8_MotionBoundsSampled ==
    (IsMotionBounds /\ at.animated) =>
      /\ ret.sampled = 128
      /\ ret.out.kind = "BBox"
      /\ \A i \in 0..127 :
            LET ti == interpolate(at, Even(i, 128))
            IN  /\ ti.kind = "Transform"
                /\ Contains(ret.out,
                            Transform_call(IF ret.useInv THEN inverse(ti) ELSE ti, ret.b))

\* C9: constructing with tm1 >= tm2 fails with InvalidTimeRange, so that no
\* instance has startTime >= endTime.
C9_TimeRangeChecked ==
    (ret.kind = "Call" /\ ret.op = "__init__" /\ RLe(at.endTime, at.startTime)) =>
       ret.out.kind = "InvalidTimeRange"

\* C13: Decompose's loop stops right after the first iteration whose change
\* measure is below EPS, and after exactly 100 iterations when there is none;
\* Decompose then returns its result rather than raising.
C13_DecomposeLoopStops ==
    (ret.kind = "Call" /\ ret.op = "Decompose") =>
       LET below == {n \in 1..Len(ret.changes) : RLt(ret.changes[n], EPS)}
       IN  /\ below # {} => \A n \in below : ret.iters <= n
           /\ below = {} => ret.iters = 100
           /\ ret.out.kind = "Decomposition"

\* C14: construction returns normally and leaves on the instance the caches
\* T, R and S, whose entries for keyframe i are the translation, the rotation
\* quaternion and the scale matrix that Decompose returns for keyframe i's
\* matrix.
C14_DecompositionCached ==
    (ret.kind = "Call" /\ ret.op = "__init__") =>
       /\ ret.out.kind = "None"
       /\ {"T", "R", "S"} \subseteq DOMAIN at
       /\ Decomposed[at.startTransform.m].out =
             [kind |-> "Decomposition", T |-> at.T[1], Rquat |-> at.R[1], S |-> at.S[1]]
       /\ Decomposed[at.endTransform.m].out =
             [kind |-> "Decomposition", T |-> at.T[2], Rquat |-> at.R[2], S |-> at.S[2]]

(***************************************************************************)
(* quaternion.py                                                           *)
(*                                                                         *)
(* Quaternion is np.quaternion, whose constructor takes (w, x, y, z) in    *)
(* that order.  fromTransform takes a square root, so a component is kept  *)
(* as coefficient * sqrt(root) with one root for the four components; a    *)
(* rational quaternion has root 1.                                         *)
(***************************************************************************)
Surd(root, a, b, c, d) ==
    [kind |-> "Quaternion", root |-> root, w |-> a, x |-> b, y |-> c, z |-> d]

\* np.quaternion(a, b, c, d)
Quaternion(a, b, c, d) == Surd(One, a, b, c, d)

\* the same value with the root folded into the coefficients where it is the
\* square of a rational
Canon(q) ==
    IF q.w = Zero /\ q.x = Zero /\ q.y = Zero /\ q.z = Zero
    THEN Surd(One, Zero, Zero, Zero, Zero)
    ELSE IF IsSquare(q.root[1]) /\ IsSquare(q.root[2])
    THEN LET r == RSqrt(q.root)
         IN  Surd(One, RMul(r, q.w), RMul(r, q.x), RMul(r, q.y), RMul(r, q.z))
    ELSE q

\* -q
QNeg(q) == Surd(q.root, RNeg(q.w), RNeg(q.x), RNeg(q.y), RNeg(q.z))

\* toTransform: the components are read as x, y, z, w = q.w, q.x, q.y, q.z,
\* the 3x3 array is built and handed to Transform(m)
toTransform(q) ==
    LET x == q.w
        y == q.x
        z == q.y
        w == q.z
        Two == Rat(2)
        m == <<<<RSub(One, RMul(Two, RAdd(RMul(y, y), RMul(z, z)))),
                 RMul(Two, RAdd(RMul(x, y), RMul(z, w))),
                 RMul(Two, RSub(RMul(x, z), RMul(y, w)))>>,
               <<RMul(Two, RSub(RMul(x, y), RMul(z, w))),
                 RSub(One, RMul(Two, RAdd(RMul(x, x), RMul(z, z)))),
                 RMul(Two, RAdd(RMul(y, z), RMul(x, w)))>>,
               <<RMul(Two, RAdd(RMul(x, z), RMul(y, w))),
                 RMul(Two, RSub(RMul(y, z), RMul(x, w))),
                 RSub(One, RMul(Two, RAdd(RMul(x, x), RMul(y, y))))>>>>
    IN  Transform_m(m)

\* m.trace() of t.m
Trace(m) == RSum([i \in 1..Len(m) |-> m[i][i]], Len(m))

\* nxt = [1, 2, 0]
nxt(i) == (i + 1) % 3

\* the index i chosen in the branch for a trace that is not positive
Pivot(m) ==
    LET i1 == IF RLt(At(m, 0, 0), At(m, 1, 1)) THEN 1 ELSE 0
    IN  IF RLt(At(m, 2, 2), At(m, i1, i1)) THEN 2 ELSE i1

\* fromTransform
fromTransform(xf) ==
    LET m == xf.m
        tr == Trace(m)
    IN  IF RLt(Zero, tr)
        THEN LET rad == RAdd(tr, One)
                 w == Half
                 s == RDiv(Half, rad)
                 x == RMul(RSub(At(m, 2, 1), At(m, 1, 2)), s)
                 y == RMul(RSub(At(m, 0, 2), At(m, 2, 0)), s)
                 z == RMul(RSub(At(m, 1, 0), At(m, 0, 1)), s)
             IN  Surd(rad, x, y, z, w)
        ELSE LET i == Pivot(m)
                 j == nxt(i)
                 k == nxt(j)
                 rad == RAdd(RSub(At(m, i, i), RAdd(At(m, j, j), At(m, k, k))), One)
                 s == IF rad = Zero THEN Zero ELSE RDiv(Half, rad)
                 w == RMul(RSub(At(m, k, j), At(m, j, k)), s)
                 q == [n \in 0..2 |->
                         IF n = i THEN (IF rad = Zero THEN Zero ELSE Half)
                         ELSE IF n = j THEN RMul(RAdd(At(m, j, i), At(m, i, j)), s)
                         ELSE RMul(RAdd(At(m, k, i), At(m, i, k)), s)]
             IN  IF RLt(rad, Zero) THEN [kind |-> "NaNQuaternion"]
                 ELSE Surd(rad, q[0], q[1], q[2], w)

(***************************************************************************)
(* The quaternion program: conversions of unit quaternions and rotations.  *)
(***************************************************************************)
\* bound on the half-turns of the rotations handed to fromTransform
MaxQuarter == 3

Signs == {-1, 1}
\* unit quaternions: one component +-1; all four +-1/2; one component +-3/5
\* and another +-4/5
UnitQuats ==
    {q \in {Quaternion(Rat(a), Rat(b), Rat(c), Rat(d)) :
               a \in {-1, 0, 1}, b \in {-1, 0, 1}, c \in {-1, 0, 1}, d \in {-1, 0, 1}} :
        Abs(q.w[1]) + Abs(q.x[1]) + Abs(q.y[1]) + Abs(q.z[1]) = 1}
    \cup {Quaternion(<<a, 2>>, <<b, 2>>, <<c, 2>>, <<d, 2>>) :
             a \in Signs, b \in Signs, c \in Signs, d \in Signs}
    \cup {q \in {Quaternion(Norm(a, 5), Norm(b, 5), Norm(c, 5), Norm(d, 5)) :
                    a \in {-4, -3, 0, 3, 4}, b \in {-4, -3, 0, 3, 4},
                    c \in {-4, -3, 0, 3, 4}, d \in {-4, -3, 0, 3, 4}} :
             /\ Abs(q.w[1]) + Abs(q.x[1]) + Abs(q.y[1]) + Abs(q.z[1]) = 7
             /\ Cardinality({c \in {q.w, q.x, q.y, q.z} : c = Zero}) = 1
             /\ Cardinality({q.w, q.x, q.y, q.z}) = 3}

Rotations ==
    {rotate_x(90 * n) : n \in 0..MaxQuarter}
    \cup {rotate_y(90 * n) : n \in 0..MaxQuarter}
    \cup {rotate_z(90 * n) : n \in 0..MaxQuarter}
    \cup {rotate(90 * n, V3(3, 4, 0)) : n \in 0..MaxQuarter}

InitQ ==
    /\ qin = NoQuaternion
    /\ qout = NoCall
    /\ t = Transform_default
    /\ ops = NoOps
    /\ nops = 0
    /\ res = NoCall
    /\ at = NoInstance
    /\ ret = NoCall

\* toTransform(q)
ToTransform ==
    /\ \E q \in UnitQuats :
          /\ qin' = q
          /\ qout' = [kind |-> "Call", op |-> "toTransform", out |-> toTransform(q)]
    /\ UNCHANGED <<varsT, varsA>>

\* fromTransform(r) for a rotation r
FromTransform ==
    /\ \E r \in Rotations :
          /\ qin' = NoQuaternion
          /\ qout' = [kind |-> "Call", op |-> "fromTransform", arg |-> r,
                      out |-> fromTransform(r),
                      ijk |-> IF RLt(Zero, Trace(r.m)) THEN <<>>
                              ELSE <<Pivot(r.m), nxt(Pivot(r.m)), nxt(nxt(Pivot(r.m)))>>]
    /\ UNCHANGED <<varsT, varsA>>

\* fromTransform(toTransform(q))
RoundTrip ==
    /\ \E q \in UnitQuats :
          LET r == toTransform(q)
          IN  /\ qin' = q
              /\ qout' = [kind |-> "Call", op |-> "roundtrip",
                          out |-> IF r.kind = "Transform" THEN fromTransform(r) ELSE r]
    /\ UNCHANGED <<varsT, varsA>>

NextQ == ToTransform \/ FromTransform \/ RoundTrip

SpecQ == InitQ /\ [][NextQ]_vars

\* C10: fromTransform(toTransform(q)) is q or -q for a unit quaternion q.
C10_RoundTrip ==
    (qout.kind = "Call" /\ qout.op = "roundtrip") =>
      /\ qout.out.kind = "Quaternion"
      /\ Canon(qout.out) = qin \/ Canon(qout.out) = QNeg(qin)

\* C12: when the trace is not positive, the pivot index i chosen by
\* fromTransform is the index of the largest diagonal element of the rotation
\* matrix, and j, k follow it in the cyclic order 0 -> 1 -> 2 -> 0.
C12_PivotLargestDiagonal ==
    (/\ qout.kind = "Call"
     /\ qout.op = "fromTransform"
     /\ ~RLt(Zero, Trace(qout.arg.m))) =>
       LET m == qout.arg.m
           i == qout.ijk[1]
           j == qout.ijk[2]
           k == qout.ijk[3]
       IN  /\ \A n \in 0..2 : RLe(At(m, n, n), At(m, i, i))
           /\ j = (i + 1) % 3
           /\ k = (j + 1) % 3

====
